---- MODULE Spec2Model ----
(***************************************************************************)
(* Model of the SankeyDiagram component (src/unnamed/part_000): the graph  *)
(* built from the journeys, its layout, the breadth-first search behind    *)
(* the hover highlighting, and the effect's life cycle.                    *)
(*                                                                         *)
(* Lengths.  The flow scale divides by maxLinkValue and the layout halves  *)
(* heights, so every vertical length of one render is an exact multiple of *)
(* 1 / (2 * maxLinkValue) pixel.  The model stores a length as that        *)
(* integer multiple; Px(p, D) is p pixels in the units of a render whose   *)
(* maxLinkValue is D.                                                      *)
(***************************************************************************)
EXTENDS Integers, Sequences, FiniteSets, TLC

VARIABLES
    journeys,       \* prop journeys: a sequence of Journey records
    hasJourneys,    \* FALSE when the prop journeys is undefined / null
    steps,          \* prop steps
    maxJourneys,    \* prop maxJourneys (the cutoff)
    domain,         \* prop domain ("" is falsy)
    theme,          \* useTheme().theme
    mounted,        \* "no" before mount, "yes" while mounted, "gone" after unmount
    nodes,          \* data bound to the .node groups of the svg
    links,          \* data bound to the .link paths of the svg
    maxLinkValue,   \* domain maximum of linkWidthScale of the render that drew the svg
    svgHeight,      \* height attribute of the svg (0: never set)
    linkOpacity,    \* opacity attribute of each .link path, in tenths
    nodeOpacity,    \* opacity attribute of each .node-rect, in tenths
    textOpacity,    \* opacity attribute of each .node-text, in tenths
    tooltips,       \* number of .sankey-tooltip overlays of this diagram in the body
    hasCleanup,     \* TRUE when the last effect run returned its cleanup function
    hover,          \* the last pointer event handled
    pc,             \* position of the traversal loop: "idle", "loop", "returned"
    bfs,            \* locals of findAllConnectedPaths: connectedLinks, queue, visited
    bfsStart,       \* startLink of the running traversal (index into links, 0: none)
    bfsDir,         \* direction of the running traversal
    now,                      \* Date.now(), in ms
    errorDedupeCache,         \* Tracker.errorDedupeCache: dedupe key -> time last forwarded
    errorDedupeLastCleanup,   \* Tracker.errorDedupeLastCleanup
    lastForwarded,            \* history: per error, the time track() was last called for it
    lastCall                  \* history: the trackError call just made and what became of it

trackerVars == <<now, errorDedupeCache, errorDedupeLastCleanup, lastForwarded, lastCall>>

sankeyVars == <<journeys, hasJourneys, steps, maxJourneys, domain, theme, mounted,
                nodes, links, maxLinkValue, svgHeight, linkOpacity, nodeOpacity,
                textOpacity, tooltips, hasCleanup, hover, pc, bfs, bfsStart, bfsDir>>

vars == <<sankeyVars, trackerVars>>

propVars == <<journeys, hasJourneys, steps, maxJourneys, domain, theme>>
svgVars == <<nodes, links, maxLinkValue, svgHeight, linkOpacity, nodeOpacity, textOpacity>>
bfsVars == <<pc, bfs, bfsStart, bfsDir>>

(***************************************************************************)
(* Program constants.                                                      *)
(***************************************************************************)
MIN_LINK_HEIGHT == 0
MAX_LINK_HEIGHT == 100
MIN_NODE_HEIGHT == 2
nodeGap == 20
minHeight == 200
verticalPadding == 10

\* Opacities, in tenths.
OpLinkDefault == 3
OpLinkOn == 6
OpLinkOff == 1
OpNodeOn == 10
OpRectOff == 2
OpTextOff == 3

\* Tracker.trackError
dedupeWindowMs == 60000
pruneAfterMs == 600000

\* The clock is read at multiples of TickMs: the first NearTicks of them, and NearTicks
\* more from FarTicks on, once entries are old enough to be pruned.
TickMs == 30000
NearTicks == 4
FarTicks == 21

(***************************************************************************)
(* Generic helpers.                                                        *)
(***************************************************************************)
\* A faulty variant of Max2: the smaller argument is returned.
Max2_Smaller(a, b) == IF a <= b THEN a ELSE b

Max2(a, b) == IF a >= b THEN a ELSE b
Min2(a, b) == IF a <= b THEN a ELSE b

RECURSIVE SumSeq(_)
SumSeq(s) == IF s = <<>> THEN 0 ELSE Head(s) + SumSeq(Tail(s))

RECURSIVE MaxSeq(_, _)
\* Math.max over the elements of s, starting from lo.
MaxSeq(s, lo) == IF s = <<>> THEN lo ELSE MaxSeq(Tail(s), Max2(lo, Head(s)))

Range(s) == {s[k] : k \in DOMAIN s}

\* A faulty variant of SliceFromStart: the cutoff is ignored.
SliceFromStart_NoCutoff(s, n) == s

\* Array.prototype.slice(0, n).
SliceFromStart(s, n) ==
    IF n >= 0 THEN SubSeq(s, 1, Min2(n, Len(s)))
    ELSE SubSeq(s, 1, Max2(Len(s) + n, 0))

(***************************************************************************)
(* Graph construction: the forEach over journeys.slice(0, maxJourneys).    *)
(* A node or link reference is its 1-based index in nodes / links.         *)
(***************************************************************************)
\* A faulty variant of StepKey: the key leaves out the layer.
StepKey_NoLayer(i, stepName) == stepName

\* `${i}_${stepName}`, i the 0-based position in the path.
StepKey(i, stepName) == ToString(i) \o "_" \o stepName

\* nodes.find(n => n.id === key): index of the first match, 0 when none.
FindNode(ns, key) ==
    IF \E k \in DOMAIN ns : ns[k].id = key
    THEN CHOOSE k \in DOMAIN ns : ns[k].id = key /\ \A m \in 1..(k - 1) : ns[m].id # key
    ELSE 0

\* links.find(l => l.source === s && l.target === t): index of the first match, 0 when none.
FindLink(ls, s, t) ==
    IF \E k \in DOMAIN ls : ls[k].source = s /\ ls[k].target = t
    THEN CHOOSE k \in DOMAIN ls : /\ ls[k].source = s /\ ls[k].target = t
                                  /\ \A m \in 1..(k - 1) : ~(ls[m].source = s /\ ls[m].target = t)
    ELSE 0

NewNode(key, stepName, i) ==
    [id |-> key, name |-> stepName, step |-> i,
     incomingLinks |-> <<>>, outgoingLinks |-> <<>>,
     height |-> 0, count |-> 0, percentage |-> 0, y |-> 0]

NewLink(s, t, v) ==
    [source |-> s, target |-> t, value |-> v, sourceY |-> 0, targetY |-> 0]

\* The node get-or-create of one loop iteration.
PushNode(ns, stepName, i) ==
    IF FindNode(ns, StepKey(i, stepName)) = 0
    THEN Append(ns, NewNode(StepKey(i, stepName), stepName, i))
    ELSE ns

\* A faulty variant of PushLink: a repeated transition gets a second link.
PushLink_AlwaysNew(ls, sourceKey, targetKey, count) ==
    Append(ls, NewLink(sourceKey, targetKey, count))

\* The link get-or-create of one loop iteration.
PushLink(ls, sourceKey, targetKey, count) ==
    LET existingLink == FindLink(ls, sourceKey, targetKey)
    IN IF existingLink # 0
       THEN [ls EXCEPT ![existingLink].value = @ + count]
       ELSE Append(ls, NewLink(sourceKey, targetKey, count))

\* A faulty variant of TargetKey: the target is keyed with the source's layer.
TargetKey_SameLayer(i, nextName) == StepKey(i, nextName)

\* const targetKey = `${i + 1}_${journey.path[i + 1]}`
TargetKey(i, nextName) == StepKey(i + 1, nextName)

\* One iteration of the for loop over a journey's path, at 0-based position i.
AddStep(g, journey, i) ==
    LET stepName == journey.path[i + 1]
    IN [nodes |-> PushNode(g.nodes, stepName, i),
        links |-> IF i < Len(journey.path) - 1
                  THEN PushLink(g.links, StepKey(i, stepName),
                                TargetKey(i, journey.path[i + 2]), journey.count)
                  ELSE g.links]

RECURSIVE WalkPath(_, _, _)
WalkPath(g, journey, i) ==
    IF i < Len(journey.path) THEN WalkPath(AddStep(g, journey, i), journey, i + 1) ELSE g

RECURSIVE WalkJourneys(_, _)
WalkJourneys(g, js) ==
    IF js = <<>> THEN g ELSE WalkJourneys(WalkPath(g, Head(js), 0), Tail(js))

EmptyGraph == [nodes |-> <<>>, links |-> <<>>]

\* Build nodes and links.
BuildNodesLinks(js, cutoff) == WalkJourneys(EmptyGraph, SliceFromStart(js, cutoff))

(***************************************************************************)
(* Incoming and outgoing link lists, flow scale, node metadata.            *)
(***************************************************************************)
RECURSIVE TrackLinks(_, _, _)
\* links.forEach(link => { sourceNode.outgoingLinks.push(link); targetNode.incomingLinks.push(link) }),
\* from link k on.
TrackLinks(ns, ls, k) ==
    IF k > Len(ls) THEN ns
    ELSE LET sourceNode == FindNode(ns, ls[k].source)
             ns1 == IF sourceNode # 0
                    THEN [ns EXCEPT ![sourceNode].outgoingLinks = Append(@, k)]
                    ELSE ns
             targetNode == FindNode(ns1, ls[k].target)
             ns2 == IF targetNode # 0
                    THEN [ns1 EXCEPT ![targetNode].incomingLinks = Append(@, k)]
                    ELSE ns1
         IN TrackLinks(ns2, ls, k + 1)

\* A faulty variant of MaxLinkValueOf: the largest value is taken as it is.
MaxLinkValueOf_NoFallback(ls) ==
    IF ls = <<>> THEN 0 ELSE MaxSeq([k \in DOMAIN ls |-> ls[k].value], ls[1].value)

\* d3.max(links, link => link.value) || 1
MaxLinkValueOf(ls) ==
    LET m == IF ls = <<>> THEN 0 ELSE MaxSeq([k \in DOMAIN ls |-> ls[k].value], ls[1].value)
    IN IF m = 0 THEN 1 ELSE m

\* p pixels, in units of 1 / (2 * D) pixel.
Px(p, D) == p * 2 * D

\* linkWidthScale(v) of a render whose maxLinkValue is D, in units of 1 / (2 * D) pixel:
\* MIN_LINK_HEIGHT + v * (MAX_LINK_HEIGHT - MIN_LINK_HEIGHT) / D.
linkWidthScale(v, D) == Px(MIN_LINK_HEIGHT, D) + 2 * v * (MAX_LINK_HEIGHT - MIN_LINK_HEIGHT)

\* list.reduce((sum, link) => sum + link.value, 0)
LinkValueSum(list, ls) == SumSeq([j \in DOMAIN list |-> ls[list[j]].value])

\* A faulty variant of MatchingJourney: the last matching journey is taken.
MatchingJourney_Last(js, node) ==
    LET hit(k) == node.step + 1 <= Len(js[k].path) /\ js[k].path[node.step + 1] = node.name
    IN IF \E k \in DOMAIN js : hit(k)
       THEN CHOOSE k \in DOMAIN js : hit(k) /\ \A m \in (k + 1)..Len(js) : ~hit(m)
       ELSE 0

\* journeys.find(journey => journey.path[node.step] === node.name): index, 0 when none.
MatchingJourney(js, node) ==
    LET hit(k) == node.step + 1 <= Len(js[k].path) /\ js[k].path[node.step + 1] = node.name
    IN IF \E k \in DOMAIN js : hit(k)
       THEN CHOOSE k \in DOMAIN js : hit(k) /\ \A m \in 1..(k - 1) : ~hit(m)
       ELSE 0

\* A faulty variant of NodeCount: every node counts its outgoing links.
NodeCount_AlwaysOutgoing(step, incomingValue, outgoingValue) == outgoingValue

\* node.count = node.step === 0 ? outgoingValue : incomingValue
NodeCount(step, incomingValue, outgoingValue) ==
    IF step = 0 THEN outgoingValue ELSE incomingValue

\* The body of the nodes.forEach that sets height, count and percentage.
NodeMeta(node, ls, D, js) ==
    LET incomingValue == LinkValueSum(node.incomingLinks, ls)
        outgoingValue == LinkValueSum(node.outgoingLinks, ls)
        maxValue == Max2(incomingValue, outgoingValue)
        matchingJourney == MatchingJourney(js, node)
    IN [node EXCEPT
           !.height = Max2(linkWidthScale(maxValue, D), Px(MIN_NODE_HEIGHT, D)),
           !.count = NodeCount(node.step, incomingValue, outgoingValue),
           !.percentage = IF matchingJourney # 0 THEN js[matchingJourney].percentage ELSE 0]

(***************************************************************************)
(* Layout: canvas height, node positions, link stacking.                   *)
(***************************************************************************)
\* The nodes of one group of d3.group(nodes, d => d.step), in node order.
StepNodes(ns, step) == SelectSeq(ns, LAMBDA n : n.step = step)

\* The keys of nodesByStep in insertion order: each step at its first node.
StepOrder(ns) ==
    LET firsts == SelectSeq([k \in DOMAIN ns |-> k],
                            LAMBDA k : \A m \in 1..(k - 1) : ns[m].step # ns[k].step)
    IN [j \in DOMAIN firsts |-> ns[firsts[j]].step]

\* stepNodes.reduce((sum, node) => sum + node.height, 0) + (stepNodes.length - 1) * nodeGap
StepHeight(stepNodes, D) ==
    SumSeq([j \in DOMAIN stepNodes |-> stepNodes[j].height])
        + (Len(stepNodes) - 1) * Px(nodeGap, D)

\* Math.max(minHeight, Math.max(...stepHeights) + verticalPadding * 2); Math.max() of
\* no arguments is -Infinity, so an empty graph gets minHeight.
CanvasHeight(ns, D) ==
    LET order == StepOrder(ns)
        stepHeights == [j \in DOMAIN order |-> StepHeight(StepNodes(ns, order[j]), D)]
    IN IF stepHeights = <<>> THEN Px(minHeight, D)
       ELSE Max2(Px(minHeight, D),
                 MaxSeq(stepHeights, stepHeights[1]) + Px(verticalPadding * 2, D))

\* A faulty variant of CurrentYBefore: currentY advances by the node's height alone.
CurrentYBefore_NoGap(ns, k, D) ==
    SumSeq([m \in 1..(k - 1) |-> IF ns[m].step = ns[k].step THEN ns[m].height ELSE 0])

\* currentY when node k of its step is reached: the heights and gaps of the nodes before it.
CurrentYBefore(ns, k, D) ==
    SumSeq([m \in 1..(k - 1) |->
               IF ns[m].step = ns[k].step THEN ns[m].height + Px(nodeGap, D) ELSE 0])

\* nodesByStep.forEach: node.y = currentY + node.height / 2.
PositionNodes(ns, D) ==
    [k \in DOMAIN ns |-> [ns[k] EXCEPT !.y = CurrentYBefore(ns, k, D) + (ns[k].height \div 2)]]

RECURSIVE InsertByValue_Unstable(_, _, _)
\* A faulty variant of InsertByValue: a link is placed before the links of equal value.
InsertByValue_Unstable(sorted, k, ls) ==
    IF sorted = <<>> THEN <<k>>
    ELSE IF ls[Head(sorted)].value > ls[k].value
         THEN <<Head(sorted)>> \o InsertByValue_Unstable(Tail(sorted), k, ls)
         ELSE <<k>> \o sorted

RECURSIVE InsertByValue(_, _, _)
\* Place link k behind every link of the sorted list whose value is not smaller.
InsertByValue(sorted, k, ls) ==
    IF sorted = <<>> THEN <<k>>
    ELSE IF ls[Head(sorted)].value >= ls[k].value
         THEN <<Head(sorted)>> \o InsertByValue(Tail(sorted), k, ls)
         ELSE <<k>> \o sorted

RECURSIVE SortByValueDesc(_, _)
\* list.sort((a, b) => b.value - a.value): a stable sort.
SortByValueDesc(list, ls) ==
    IF list = <<>> THEN <<>>
    ELSE InsertByValue(SortByValueDesc(SubSeq(list, 1, Len(list) - 1), ls), list[Len(list)], ls)

RECURSIVE StackSide(_, _, _, _, _, _)
\* list.forEach(link => { link[field] = currentY + linkHeight / 2; currentY += linkHeight }),
\* from position j on.
StackSide(ls, list, j, currentY, field, D) ==
    IF j > Len(list) THEN ls
    ELSE LET linkHeight == linkWidthScale(ls[list[j]].value, D)
             anchor == currentY + (linkHeight \div 2)
             ls1 == IF field = "sourceY"
                    THEN [ls EXCEPT ![list[j]].sourceY = anchor]
                    ELSE [ls EXCEPT ![list[j]].targetY = anchor]
         IN StackSide(ls1, list, j + 1, currentY + linkHeight, field, D)

\* The body of the nodes.forEach that sorts the link lists of node k and sets the anchors.
StackNode(g, k, D) ==
    LET node == g.nodes[k]
        incoming == SortByValueDesc(node.incomingLinks, g.links)
        outgoing == SortByValueDesc(node.outgoingLinks, g.links)
        outStartY == node.y - (node.height \div 2)
        inStartY == node.y - (node.height \div 2)
        ls1 == StackSide(g.links, outgoing, 1, outStartY, "sourceY", D)
        ls2 == StackSide(ls1, incoming, 1, inStartY, "targetY", D)
    IN [nodes |-> [g.nodes EXCEPT ![k].incomingLinks = incoming,
                                  ![k].outgoingLinks = outgoing],
        links |-> ls2]

RECURSIVE StackLinks(_, _, _)
\* The nodes.forEach over all nodes, from node k on.
StackLinks(g, k, D) ==
    IF k > Len(g.nodes) THEN g
    ELSE StackLinks(StackNode(g, k, D), k + 1, D)

\* Everything the effect computes before it draws: the positioned graph.
LayoutGraph(js, cutoff) ==
    LET built == BuildNodesLinks(js, cutoff)
        D == MaxLinkValueOf(built.links)
        tracked == TrackLinks(built.nodes, built.links, 1)
        withMeta == [k \in DOMAIN tracked |-> NodeMeta(tracked[k], built.links, D, js)]
        placed == PositionNodes(withMeta, D)
        stacked == StackLinks([nodes |-> placed, links |-> built.links], 1, D)
    IN [nodes |-> stacked.nodes, links |-> stacked.links,
        maxLinkValue |-> D, height |-> CanvasHeight(withMeta, D)]

(***************************************************************************)
(* findAllConnectedPaths: the breadth-first search over the link lists.    *)
(***************************************************************************)
\* `${link.source}|||${link.target}`
LinkId(source, target) == source \o "|||" \o target

\* The locals of findAllConnectedPaths at the loop head.
BfsInit(startLink) == [connectedLinks |-> <<>>, queue |-> <<startLink>>, visited |-> {}]

\* A faulty variant of Followers: the search leaves the next node through both of its lists.
Followers_BothWays(ns, ls, currentLink, direction) ==
    LET nextNode == FindNode(ns, IF direction = "forward" THEN ls[currentLink].target
                                 ELSE ls[currentLink].source)
    IN IF nextNode = 0 THEN <<>>
       ELSE ns[nextNode].outgoingLinks \o ns[nextNode].incomingLinks

\* The links queued after currentLink was accepted.
Followers(ns, ls, currentLink, direction) ==
    LET nextNode == FindNode(ns, IF direction = "forward" THEN ls[currentLink].target
                                 ELSE ls[currentLink].source)
    IN IF nextNode = 0 THEN <<>>
       ELSE IF direction = "forward" THEN ns[nextNode].outgoingLinks
            ELSE ns[nextNode].incomingLinks

\* A faulty variant of Visited: no link is ever recognised.
Visited_Never(b, linkId) == FALSE

\* visited.has(linkId)
Visited(b, linkId) == linkId \in b.visited

\* One iteration of the while loop (queue not empty).
BfsIteration(b, ns, ls, direction) ==
    LET currentLink == Head(b.queue)
        linkId == LinkId(ls[currentLink].source, ls[currentLink].target)
    IN IF Visited(b, linkId) THEN [b EXCEPT !.queue = Tail(@)]
       ELSE [connectedLinks |-> Append(b.connectedLinks, currentLink),
             queue |-> Tail(b.queue) \o Followers(ns, ls, currentLink, direction),
             visited |-> b.visited \cup {linkId}]

RECURSIVE BfsLoop(_, _, _, _)
BfsLoop(b, ns, ls, direction) ==
    IF b.queue # <<>> THEN BfsLoop(BfsIteration(b, ns, ls, direction), ns, ls, direction)
    ELSE b

\* The array findAllConnectedPaths returns.
findAllConnectedPaths(ns, ls, startLink, direction) ==
    BfsLoop(BfsInit(startLink), ns, ls, direction).connectedLinks

(***************************************************************************)
(* Hover handlers.                                                         *)
(***************************************************************************)
NoHover == [kind |-> "none", index |-> 0, links |-> {}, linkIds |-> {}, nodeIds |-> {}]

\* links.filter(link => link.source === nodeId || link.target === nodeId)
DirectLinks(ls, nodeId) ==
    SelectSeq([k \in DOMAIN ls |-> k], LAMBDA k : ls[k].source = nodeId \/ ls[k].target = nodeId)

RECURSIVE GatherConnected(_, _, _, _)
\* directLinks.forEach(link => allConnectedLinks.push(link, ...forwardPaths, ...backwardPaths)),
\* from position j on.
GatherConnected(ns, ls, directLinks, j) ==
    IF j > Len(directLinks) THEN <<>>
    ELSE <<directLinks[j]>>
           \o findAllConnectedPaths(ns, ls, directLinks[j], "forward")
           \o findAllConnectedPaths(ns, ls, directLinks[j], "backward")
           \o GatherConnected(ns, ls, directLinks, j + 1)

\* allConnectedLinks of the node handler.
NodeConnectedLinks(ns, ls, nodeId) == GatherConnected(ns, ls, DirectLinks(ls, nodeId), 1)

\* allConnectedLinks of the link handler: [d, ...forwardPaths, ...backwardPaths].
LinkConnectedLinks(ns, ls, d) ==
    <<d>> \o findAllConnectedPaths(ns, ls, d, "forward")
          \o findAllConnectedPaths(ns, ls, d, "backward")

\* connectedLinkIds collected from allConnectedLinks.
ConnectedLinkIds(ls, all) == {LinkId(ls[all[j]].source, ls[all[j]].target) : j \in DOMAIN all}

\* connectedNodeIds collected from allConnectedLinks, seeded with seed.
ConnectedNodeIds(ls, all, seed) ==
    seed \cup {ls[all[j]].source : j \in DOMAIN all} \cup {ls[all[j]].target : j \in DOMAIN all}

\* d3.selectAll(".link").attr("opacity", ...) from the data-source / data-target attributes.
DimLinks(ls, linkIds) ==
    [k \in DOMAIN ls |->
        IF LinkId(ls[k].source, ls[k].target) \in linkIds THEN OpLinkOn ELSE OpLinkOff]

\* d3.selectAll(".node-rect") / (".node-text").attr("opacity", ...)
DimNodes(ns, nodeIds, off) ==
    [k \in DOMAIN ns |-> IF ns[k].id \in nodeIds THEN OpNodeOn ELSE off]

Highlight(kind, index, all, seed) ==
    \E linkIds \in {ConnectedLinkIds(links, all)}, nodeIds \in {ConnectedNodeIds(links, all, seed)} :
       /\ linkOpacity' = DimLinks(links, linkIds)
       /\ nodeOpacity' = DimNodes(nodes, nodeIds, OpRectOff)
       /\ textOpacity' = DimNodes(nodes, nodeIds, OpTextOff)
       /\ hover' = [kind |-> kind, index |-> index, links |-> Range(all),
                    linkIds |-> linkIds, nodeIds |-> nodeIds]

\* The svg is in the document and holds the elements of its last drawing.
Drawn == mounted = "yes"

\* nodeGroups.on("mouseenter")
NodeMouseEnter(k) ==
    /\ Drawn /\ pc # "loop"
    /\ k \in DOMAIN nodes
    /\ \E all \in {NodeConnectedLinks(nodes, links, nodes[k].id)} :
           Highlight("node", k, all, {nodes[k].id})
    /\ UNCHANGED <<propVars, mounted, nodes, links, maxLinkValue, svgHeight,
                   tooltips, hasCleanup, bfsVars,
                   trackerVars>>

\* link-hit-area .on("mouseenter")
LinkMouseEnter(k) ==
    /\ Drawn /\ pc # "loop"
    /\ k \in DOMAIN links
    /\ \E all \in {LinkConnectedLinks(nodes, links, k)} : Highlight("link", k, all, {})
    /\ UNCHANGED <<propVars, mounted, nodes, links, maxLinkValue, svgHeight,
                   tooltips, hasCleanup, bfsVars,
                   trackerVars>>

\* The two mouseleave handlers have the same body.
ResetOpacity ==
    /\ linkOpacity' = [k \in DOMAIN links |-> OpLinkDefault]
    /\ nodeOpacity' = [k \in DOMAIN nodes |-> OpNodeOn]
    /\ textOpacity' = [k \in DOMAIN nodes |-> OpNodeOn]

\* nodeGroups.on("mouseleave")
NodeMouseLeave ==
    /\ Drawn /\ pc # "loop"
    /\ hover.kind = "node"
    /\ ResetOpacity
    /\ hover' = NoHover
    /\ UNCHANGED <<propVars, mounted, nodes, links, maxLinkValue, svgHeight,
                   tooltips, hasCleanup, bfsVars,
                   trackerVars>>

\* link-hit-area .on("mouseleave")
LinkMouseLeave ==
    /\ Drawn /\ pc # "loop"
    /\ hover.kind = "link"
    /\ ResetOpacity
    /\ hover' = NoHover
    /\ UNCHANGED <<propVars, mounted, nodes, links, maxLinkValue, svgHeight,
                   tooltips, hasCleanup, bfsVars,
                   trackerVars>>

(***************************************************************************)
(* The effect and its life cycle.                                          *)
(***************************************************************************)
\* if (!journeys || !svgRef.current || !domain) return; the ref is set whenever an
\* effect runs.
EarlyReturn(has, dom) == ~has \/ dom = ""

\* A faulty variant of AfterCleanup: the cleanup leaves the tooltip in the document.
AfterCleanup_Leak == tooltips

\* The tooltips left in the body once the pending cleanup (tooltip.remove()) has run.
AfterCleanup == IF hasCleanup THEN tooltips - 1 ELSE tooltips

\* One run of the useEffect callback with the given props, after the cleanup of the
\* run before it.
RunEffect(js, has, dom, cutoff) ==
    IF EarlyReturn(has, dom)
    THEN /\ tooltips' = AfterCleanup
         /\ hasCleanup' = FALSE
         /\ UNCHANGED <<svgVars, hover>>
    ELSE \E g \in {LayoutGraph(js, cutoff)} :
            /\ nodes' = g.nodes
            /\ links' = g.links
            /\ maxLinkValue' = g.maxLinkValue
            /\ svgHeight' = g.height
            /\ linkOpacity' = [k \in DOMAIN g.links |-> OpLinkDefault]
            /\ nodeOpacity' = [k \in DOMAIN g.nodes |-> OpNodeOn]
            /\ textOpacity' = [k \in DOMAIN g.nodes |-> OpNodeOn]
            /\ tooltips' = AfterCleanup + 1
            /\ hasCleanup' = TRUE
            /\ hover' = NoHover

\* First commit of the component: the effect runs with the initial props.
Mount ==
    /\ mounted = "no"
    /\ mounted' = "yes"
    /\ RunEffect(journeys, hasJourneys, domain, maxJourneys)
    /\ UNCHANGED <<propVars, bfsVars,
                   trackerVars>>

\* The parent passes a journeys array (a new array: the dependency always changes).
SetJourneys(js) ==
    /\ mounted = "yes" /\ pc # "loop"
    /\ journeys' = js
    /\ hasJourneys' = TRUE
    /\ RunEffect(js, TRUE, domain, maxJourneys)
    /\ UNCHANGED <<steps, maxJourneys, domain, theme, mounted, bfsVars,
                   trackerVars>>

\* The parent passes no journeys (undefined).
ClearJourneys ==
    /\ mounted = "yes" /\ pc # "loop"
    /\ hasJourneys
    /\ journeys' = <<>>
    /\ hasJourneys' = FALSE
    /\ RunEffect(<<>>, FALSE, domain, maxJourneys)
    /\ UNCHANGED <<steps, maxJourneys, domain, theme, mounted, bfsVars,
                   trackerVars>>

SetSteps(n) ==
    /\ mounted = "yes" /\ pc # "loop"
    /\ n # steps
    /\ steps' = n
    /\ RunEffect(journeys, hasJourneys, domain, maxJourneys)
    /\ UNCHANGED <<journeys, hasJourneys, maxJourneys, domain, theme, mounted, bfsVars,
                   trackerVars>>

SetMaxJourneys(c) ==
    /\ mounted = "yes" /\ pc # "loop"
    /\ c # maxJourneys
    /\ maxJourneys' = c
    /\ RunEffect(journeys, hasJourneys, domain, c)
    /\ UNCHANGED <<journeys, hasJourneys, steps, domain, theme, mounted, bfsVars,
                   trackerVars>>

SetDomain(d) ==
    /\ mounted = "yes" /\ pc # "loop"
    /\ d # domain
    /\ domain' = d
    /\ RunEffect(journeys, hasJourneys, d, maxJourneys)
    /\ UNCHANGED <<journeys, hasJourneys, steps, maxJourneys, theme, mounted, bfsVars,
                   trackerVars>>

SetTheme(t) ==
    /\ mounted = "yes" /\ pc # "loop"
    /\ t # theme
    /\ theme' = t
    /\ RunEffect(journeys, hasJourneys, domain, maxJourneys)
    /\ UNCHANGED <<journeys, hasJourneys, steps, maxJourneys, domain, mounted, bfsVars,
                   trackerVars>>

\* The component is removed: the pending cleanup runs and the svg leaves the document.
Unmount ==
    /\ mounted = "yes" /\ pc # "loop"
    /\ mounted' = "gone"
    /\ tooltips' = AfterCleanup
    /\ hasCleanup' = FALSE
    /\ nodes' = <<>> /\ links' = <<>>
    /\ linkOpacity' = <<>> /\ nodeOpacity' = <<>> /\ textOpacity' = <<>>
    /\ hover' = NoHover
    /\ UNCHANGED <<propVars, maxLinkValue, svgHeight, bfsVars,
                   trackerVars>>

(***************************************************************************)
(* findAllConnectedPaths, one loop iteration at a time.                    *)
(***************************************************************************)
NoBfs == [connectedLinks |-> <<>>, queue |-> <<>>, visited |-> {}]

\* A handler calls findAllConnectedPaths(startLink, direction).
TraversalCall(startLink, direction) ==
    /\ Drawn /\ pc # "loop"
    /\ startLink \in DOMAIN links
    /\ pc' = "loop"
    /\ bfs' = BfsInit(startLink)
    /\ bfsStart' = startLink
    /\ bfsDir' = direction
    /\ UNCHANGED <<propVars, mounted, svgVars, tooltips, hasCleanup, hover,
                   trackerVars>>

\* while (queue.length > 0) { ... }
TraversalStep ==
    /\ pc = "loop"
    /\ bfs.queue # <<>>
    /\ bfs' = BfsIteration(bfs, nodes, links, bfsDir)
    /\ UNCHANGED <<propVars, mounted, svgVars, tooltips, hasCleanup, hover, pc, bfsStart, bfsDir,
                   trackerVars>>

\* return connectedLinks
TraversalReturn ==
    /\ pc = "loop"
    /\ bfs.queue = <<>>
    /\ pc' = "returned"
    /\ UNCHANGED <<propVars, mounted, svgVars, tooltips, hasCleanup, hover, bfs, bfsStart, bfsDir,
                   trackerVars>>

(***************************************************************************)
(* Inputs.                                                                 *)
(***************************************************************************)
PathsUpTo(labels, n) == UNION {[1..k -> labels] : k \in 0..n}
ListsUpTo(S, n) == UNION {[1..k -> S] : k \in 0..n}
JourneysOf(labels, maxLen, counts, pcts) ==
    [path : PathsUpTo(labels, maxLen), count : counts, percentage : pcts]

\* A new Tracker: an empty cache, no cleanup yet, no call made.
NoCall == [error |-> <<>>, outcome |-> "none", prevSame |-> 0, prevKey |-> 0]
NewTracker ==
    /\ now = TickMs
    /\ errorDedupeCache = <<>>
    /\ errorDedupeLastCleanup = 0
    /\ lastForwarded = <<>>
    /\ lastCall = NoCall

\* The state before the first commit: the props are given, nothing is drawn.  The
\* journeys prop is a list of at most maxLists journeys of the pool, or one of the
\* named lists.
InitWith(pool, maxLists, named, cutoffs, stepses, domains, themes) ==
    /\ \/ \E k \in 0..maxLists : journeys \in [1..k -> pool]
       \/ journeys \in named
    /\ hasJourneys = TRUE
    /\ steps \in stepses
    /\ maxJourneys \in cutoffs
    /\ domain \in domains
    /\ theme \in themes
    /\ mounted = "no"
    /\ nodes = <<>> /\ links = <<>>
    /\ maxLinkValue = 1
    /\ svgHeight = 0
    /\ linkOpacity = <<>> /\ nodeOpacity = <<>> /\ textOpacity = <<>>
    /\ tooltips = 0
    /\ hasCleanup = FALSE
    /\ hover = NoHover
    /\ pc = "idle"
    /\ bfs = NoBfs
    /\ bfsStart = 0
    /\ bfsDir = "forward"
    /\ NewTracker

(***************************************************************************)
(* Spec: the life cycle of one diagram (mount, prop changes, hover events, *)
(* unmount) over a small set of journeys.                                  *)
(***************************************************************************)
MaxPathLen == 2
MaxJourneys == 1
MaxCutoff == 1

Labels == {"/a", "/b"}
Inputs == ListsUpTo(JourneysOf(Labels, MaxPathLen, {1}, {50}), MaxJourneys)
Cutoffs == 0..MaxCutoff
StepsValues == {2, 3}
Domains == {"", "example.com"}
Themes == {"light", "dark"}

Init ==
    InitWith(JourneysOf(Labels, MaxPathLen, {1}, {50}), MaxJourneys, {}, Cutoffs, StepsValues,
             Domains, Themes)

Next ==
    \/ Mount
    \/ \E js \in Inputs : SetJourneys(js)
    \/ ClearJourneys
    \/ \E n \in StepsValues : SetSteps(n)
    \/ \E c \in Cutoffs : SetMaxJourneys(c)
    \/ \E d \in Domains : SetDomain(d)
    \/ \E t \in Themes : SetTheme(t)
    \/ \E k \in DOMAIN nodes : NodeMouseEnter(k)
    \/ NodeMouseLeave
    \/ \E k \in DOMAIN links : LinkMouseEnter(k)
    \/ LinkMouseLeave
    \/ Unmount

Spec == Init /\ [][Next]_vars

(***************************************************************************)
(* BuildSpec: one render of each journey list of a larger set, and the     *)
(* rebuilds a change of the cutoff triggers.                               *)
(***************************************************************************)
BuildMaxPathLen == 3
BuildMaxJourneys == 2
BuildMaxCount == 2
BuildMaxPct == 2

BuildLabels == {"/a", "/b"}
BuildPool == JourneysOf(BuildLabels, BuildMaxPathLen, 0..BuildMaxCount, 1..BuildMaxPct)

\* The two graphs the specification names.
ScenarioSingle == <<[path |-> <<"/a", "/b">>, count |-> 10, percentage |-> 100]>>
ScenarioFork == <<[path |-> <<"/a", "/b">>, count |-> 5, percentage |-> 60],
                  [path |-> <<"/a", "/c">>, count |-> 3, percentage |-> 40]>>

\* Three journeys: a node that is second in its layer and sorts two links.
ScenarioStacked == <<[path |-> <<"/b", "/c">>, count |-> 1, percentage |-> 25],
                     [path |-> <<"/a", "/b">>, count |-> 1, percentage |-> 25],
                     [path |-> <<"/a", "/c">>, count |-> 2, percentage |-> 50]>>

BuildCutoffs == 0..(BuildMaxJourneys + 1)

BuildInit ==
    InitWith(BuildPool, BuildMaxJourneys, {ScenarioSingle, ScenarioFork, ScenarioStacked},
             BuildCutoffs, {2}, {"example.com"}, {"light"})

BuildNext ==
    \/ Mount
    \/ \E c \in BuildCutoffs : SetMaxJourneys(c)

BuildSpec == BuildInit /\ [][BuildNext]_vars

(***************************************************************************)
(* HoverSpec: the hover handlers on the graphs of a larger set of journey  *)
(* lists, drawn once.                                                      *)
(***************************************************************************)
HoverMaxPathLen == 3
HoverMaxJourneys == 2

HoverLabels == {"/a", "/b", "/a|||1_/a"}
HoverPool == JourneysOf(HoverLabels, HoverMaxPathLen, {1}, {50})

HoverInit ==
    InitWith(HoverPool, HoverMaxJourneys, {}, {HoverMaxJourneys}, {3}, {"example.com"}, {"light"})

HoverNext ==
    \/ Mount
    \/ \E k \in DOMAIN nodes : NodeMouseEnter(k)
    \/ NodeMouseLeave
    \/ \E k \in DOMAIN links : LinkMouseEnter(k)
    \/ LinkMouseLeave

HoverSpec == HoverInit /\ [][HoverNext]_vars

(***************************************************************************)
(* ReachSpec: the traversal loop run step by step on the graphs of longer  *)
(* journeys.                                                               *)
(***************************************************************************)
ReachMaxPathLen == 5
ReachMaxJourneys == 2

ReachLabels == {"/a", "/a|||3_/a"}
ReachPool == JourneysOf(ReachLabels, ReachMaxPathLen, {1}, {50})

ReachInit ==
    InitWith(ReachPool, ReachMaxJourneys, {}, {ReachMaxJourneys}, {5}, {"example.com"}, {"light"})

ReachNext ==
    \/ Mount
    \/ \E k \in DOMAIN links, d \in {"forward", "backward"} : TraversalCall(k, d)
    \/ TraversalStep
    \/ TraversalReturn

\* The loop is sequential code: once entered it keeps running.
ReachSpec == ReachInit /\ [][ReachNext]_vars /\ WF_vars(TraversalStep) /\ WF_vars(TraversalReturn)

(***************************************************************************)
(* Vocabulary of the properties.                                           *)
(***************************************************************************)
\* The svg shows the drawing of an effect run with the current props.
Fresh == mounted = "yes" /\ ~EarlyReturn(hasJourneys, domain)

\* The considered journeys: the first maxJourneys of the input.
Considered == [k \in 1..Min2(Len(journeys), Max2(maxJourneys, 0)) |-> journeys[k]]

\* Journey j has label a at 0-based position i and label b right after it.
HasTransition(j, i, a, b) ==
    /\ i + 2 <= Len(j.path)
    /\ j.path[i + 1] = a
    /\ j.path[i + 2] = b

\* Journey j has label a at 0-based position i.
HasLabelAt(j, i, a) == i + 1 <= Len(j.path) /\ j.path[i + 1] = a

\* The sum of f over the set of indices S.
RECURSIVE SumOver(_, _)
SumOver(S, f) ==
    IF S = {} THEN 0
    ELSE LET x == CHOOSE y \in S : TRUE IN f[x] + SumOver(S \ {x}, f)

NodeOf(id) == nodes[FindNode(nodes, id)]

\* The links leaving / entering the node with this id, read off the link set.
LinksFrom(id) == {k \in DOMAIN links : links[k].source = id}
LinksInto(id) == {k \in DOMAIN links : links[k].target = id}
ValueSum(S) == SumOver(S, [k \in DOMAIN links |-> links[k].value])

(***************************************************************************)
(* C1.  After a build every (source, target) pair has at most one link,    *)
(* every consecutive transition of a considered journey has its link, and  *)
(* a link's value is the sum of the counts of the considered journeys that *)
(* have label(source) at the source's layer i and label(target) at i + 1.  *)
(***************************************************************************)
C1_LinkValues ==
    Fresh =>
        /\ \A k, m \in DOMAIN links :
               (links[k].source = links[m].source /\ links[k].target = links[m].target) => k = m
        /\ \A k \in DOMAIN links :
               /\ FindNode(nodes, links[k].source) # 0
               /\ FindNode(nodes, links[k].target) # 0
               /\ LET s == NodeOf(links[k].source)
                      t == NodeOf(links[k].target)
                  IN links[k].value =
                         SumOver(DOMAIN Considered,
                                 [j \in DOMAIN Considered |->
                                     IF HasTransition(Considered[j], s.step, s.name, t.name)
                                     THEN Considered[j].count ELSE 0])
        /\ \A j \in DOMAIN Considered : \A i \in 0..(Len(Considered[j].path) - 2) :
               \E k \in DOMAIN links :
                   /\ links[k].source = StepKey(i, Considered[j].path[i + 1])
                   /\ links[k].target = StepKey(i + 1, Considered[j].path[i + 2])

\* Two considered journeys share a transition and its one link carries both counts.
C1_Witness ==
    /\ Fresh
    /\ \E k \in DOMAIN links : \E j1, j2 \in DOMAIN Considered :
           /\ j1 # j2
           /\ HasTransition(Considered[j1], NodeOf(links[k].source).step,
                            NodeOf(links[k].source).name, NodeOf(links[k].target).name)
           /\ HasTransition(Considered[j2], NodeOf(links[k].source).step,
                            NodeOf(links[k].source).name, NodeOf(links[k].target).name)
           /\ Considered[j1].count > 0 /\ Considered[j2].count > 0
           /\ links[k].value = Considered[j1].count + Considered[j2].count

(***************************************************************************)
(* C2.  After a build there is exactly one node for each (layer, label)    *)
(* pair that occurs in a considered journey and no other node; a label     *)
(* that occurs at two layers has two nodes.                                *)
(***************************************************************************)
C2_OneNodePerLayerLabel ==
    Fresh =>
        /\ \A j \in DOMAIN Considered : \A i \in 0..(Len(Considered[j].path) - 1) :
               Cardinality({k \in DOMAIN nodes :
                               nodes[k].step = i /\ nodes[k].name = Considered[j].path[i + 1]}) = 1
        /\ \A k \in DOMAIN nodes :
               \E j \in DOMAIN Considered : HasLabelAt(Considered[j], nodes[k].step, nodes[k].name)
        /\ \A j1, j2 \in DOMAIN Considered :
               \A i1 \in 0..(Len(Considered[j1].path) - 1), i2 \in 0..(Len(Considered[j2].path) - 1) :
                   (i1 # i2 /\ Considered[j1].path[i1 + 1] = Considered[j2].path[i2 + 1]) =>
                       \E k, m \in DOMAIN nodes :
                           /\ k # m
                           /\ nodes[k].name = nodes[m].name
                           /\ nodes[k].step = i1 /\ nodes[m].step = i2

\* One label drawn at two layers, as two nodes, while two journeys share a node.
C2_Witness ==
    /\ Fresh
    /\ \E k, m \in DOMAIN nodes : nodes[k].name = nodes[m].name /\ nodes[k].step # nodes[m].step
    /\ \E j1, j2 \in DOMAIN Considered :
           j1 # j2 /\ Considered[j1].path # <<>> /\ Considered[j1].path = Considered[j2].path

(***************************************************************************)
(* C3.  The drawn graph (nodes, links, values, totalFlow, percentage,      *)
(* layout) is the graph of the first maxJourneys journeys alone; an empty  *)
(* journey list or a cutoff of 0 draws no node and no link; a journey with *)
(* an empty path contributes no node and no link.                          *)
(***************************************************************************)
C3_OnlyTheFirstJourneysCount ==
    Fresh =>
        /\ LET alone == LayoutGraph(Considered, Len(Considered))
           IN /\ nodes = alone.nodes
              /\ links = alone.links
              /\ maxLinkValue = alone.maxLinkValue
              /\ svgHeight = alone.height
        /\ (journeys = <<>> \/ maxJourneys = 0) => (nodes = <<>> /\ links = <<>>)
        /\ LET walked == SelectSeq(Considered, LAMBDA j : j.path # <<>>)
               g == BuildNodesLinks(walked, Len(walked))
           IN /\ [k \in DOMAIN nodes |-> nodes[k].id] = [k \in DOMAIN g.nodes |-> g.nodes[k].id]
              /\ [k \in DOMAIN links |-> <<links[k].source, links[k].target, links[k].value>>]
                     = [k \in DOMAIN g.links |->
                           <<g.links[k].source, g.links[k].target, g.links[k].value>>]

\* A journey behind the cutoff walks through a drawn node with another percentage.
C3_Witness ==
    /\ Fresh
    /\ links # <<>>
    /\ \E j \in (DOMAIN journeys) \ (DOMAIN Considered) : \E k \in DOMAIN nodes :
           /\ HasLabelAt(journeys[j], nodes[k].step, nodes[k].name)
           /\ journeys[j].percentage # nodes[k].percentage
           /\ journeys[j].count > 0

(***************************************************************************)
(* C4.  A node's totalFlow (node.count) is the sum of the values of the    *)
(* links leaving it when it is in layer 0 and of the links entering it     *)
(* otherwise; the single journey /a -> /b with count 10 gives two nodes    *)
(* with totalFlow 10.                                                      *)
(***************************************************************************)
C4_TotalFlow ==
    Fresh =>
        /\ \A k \in DOMAIN nodes :
               nodes[k].count = IF nodes[k].step = 0
                                THEN ValueSum(LinksFrom(nodes[k].id))
                                ELSE ValueSum(LinksInto(nodes[k].id))
        /\ (journeys = ScenarioSingle /\ maxJourneys >= 1) =>
               /\ Len(nodes) = 2 /\ Len(links) = 1
               /\ links[1].value = 10
               /\ \A k \in DOMAIN nodes : nodes[k].count = 10

\* A node behind layer 0 whose incoming and outgoing sums differ, and one in layer 0.
C4_Witness ==
    /\ Fresh
    /\ \E k \in DOMAIN nodes :
           /\ nodes[k].step > 0
           /\ ValueSum(LinksFrom(nodes[k].id)) > 0
           /\ ValueSum(LinksInto(nodes[k].id)) > ValueSum(LinksFrom(nodes[k].id))
    /\ \E k \in DOMAIN nodes : nodes[k].step = 0 /\ nodes[k].count > 0

(***************************************************************************)
(* C5.  The drawn graph depends on the latest inputs alone: whatever       *)
(* rebuilds came before, the drawn nodes and link values are those of one  *)
(* build from the current journeys and cutoff, and with the journeys       *)
(* missing or empty nothing is drawn.  (Stated for a diagram whose domain  *)
(* is given, so that only the journeys decide whether the effect draws.)   *)
(***************************************************************************)
C5_DrawnFromLatestInputs ==
    (mounted = "yes" /\ domain # "") =>
        /\ hasJourneys =>
               LET fresh == LayoutGraph(journeys, maxJourneys)
               IN nodes = fresh.nodes /\ links = fresh.links
        /\ (~hasJourneys \/ journeys = <<>>) => (nodes = <<>> /\ links = <<>>)

(***************************************************************************)
(* C9.  Every link joins two nodes of the graph, its source in some layer  *)
(* k >= 0 and its target in layer k + 1: no link stays in a layer, skips   *)
(* a layer or goes back, so no chain of links returns to where it began.   *)
(***************************************************************************)
C9_LinksAdvanceOneLayer ==
    Fresh =>
        \A k \in DOMAIN links :
            /\ FindNode(nodes, links[k].source) # 0
            /\ FindNode(nodes, links[k].target) # 0
            /\ NodeOf(links[k].source).step >= 0
            /\ NodeOf(links[k].target).step = NodeOf(links[k].source).step + 1
            /\ links[k].source # links[k].target

\* A journey that repeats one label: its links still advance through three layers.
C9_Witness ==
    /\ Fresh
    /\ \E k, m \in DOMAIN links :
           /\ links[k].target = links[m].source
           /\ NodeOf(links[k].source).name = NodeOf(links[m].target).name
           /\ NodeOf(links[k].source).name = NodeOf(links[k].target).name

(***************************************************************************)
(* C10.  After layout each node's outgoing list holds exactly the links    *)
(* leaving it and its incoming list exactly the links entering it, each    *)
(* by non-increasing value with equal values in link-creation order; the   *)
(* anchor of the j-th link of a list is the node's top edge plus the       *)
(* scaled thicknesses of the links before it plus half its own.  For       *)
(* /a -> /b (5) and /a -> /c (3) the outgoing list of /a is                *)
(* [/a -> /b, /a -> /c].                                                   *)
(***************************************************************************)
Thickness(k) == linkWidthScale(links[k].value, maxLinkValue)

\* The list holds the links of S, largest first, ties in creation order.
StackedList(list, S) ==
    /\ Len(list) = Cardinality(S)
    /\ Range(list) = S
    /\ \A a, b \in DOMAIN list :
           a < b => \/ links[list[a]].value > links[list[b]].value
                    \/ (links[list[a]].value = links[list[b]].value /\ list[a] < list[b])

\* Twice the distance from the node's top edge to the anchor of the j-th link.
AnchorTwice(list, j) ==
    2 * SumSeq([m \in 1..(j - 1) |-> Thickness(list[m])]) + Thickness(list[j])

C10_LinkStacking ==
    Fresh =>
        /\ \A n \in DOMAIN nodes :
               LET top == nodes[n].y - (nodes[n].height \div 2)
                   out == nodes[n].outgoingLinks
                   inc == nodes[n].incomingLinks
               IN /\ 2 * top = 2 * nodes[n].y - nodes[n].height
                  /\ StackedList(out, LinksFrom(nodes[n].id))
                  /\ StackedList(inc, LinksInto(nodes[n].id))
                  /\ \A j \in DOMAIN out : 2 * (links[out[j]].sourceY - top) = AnchorTwice(out, j)
                  /\ \A j \in DOMAIN inc : 2 * (links[inc[j]].targetY - top) = AnchorTwice(inc, j)
        /\ (journeys = ScenarioFork /\ maxJourneys >= 2) =>
               NodeOf("0_/a").outgoingLinks
                   = <<FindLink(links, "0_/a", "1_/b"), FindLink(links, "0_/a", "1_/c")>>

\* The sort moved a later, larger link in front of an earlier one, below the top of
\* the layer.
C10_Witness ==
    /\ Fresh
    /\ \E n \in DOMAIN nodes :
           /\ Len(nodes[n].outgoingLinks) = 2
           /\ nodes[n].outgoingLinks[1] > nodes[n].outgoingLinks[2]
           /\ nodes[n].y - (nodes[n].height \div 2) > 0
           /\ links[nodes[n].outgoingLinks[2]].value > 0

(***************************************************************************)
(* Chains of links, read off the link set.                                 *)
(***************************************************************************)
\* Link m continues link l in the direction: forward, m leaves the node l enters;
\* backward, m enters the node l leaves.
Continues(l, m, direction) ==
    IF direction = "forward" THEN links[l].target = links[m].source
    ELSE links[l].source = links[m].target

RECURSIVE ChainClosure(_, _)
\* The links at the end of a chain that starts at a link of R.
ChainClosure(R, direction) ==
    LET more == {m \in DOMAIN links : \E l \in R : Continues(l, m, direction)}
    IN IF more \subseteq R THEN R ELSE ChainClosure(R \cup more, direction)

\* Links l and m share an endpoint.
Touch(l, m) ==
    {links[l].source, links[l].target} \cap {links[m].source, links[m].target} # {}

RECURSIVE WeakClosure(_)
\* The links joined to a link of R by a chain of links sharing endpoints.
WeakClosure(R) ==
    LET more == {m \in DOMAIN links : \E l \in R : Touch(l, m)}
    IN IF more \subseteq R THEN R ELSE WeakClosure(R \cup more)

(***************************************************************************)
(* C6.  connected(startLink, direction) returns exactly the links at the   *)
(* end of a chain from startLink in that direction; the result always      *)
(* holds startLink and is {startLink} when no link continues it.           *)
(***************************************************************************)
C6_ConnectedIsChainClosure ==
    pc = "returned" =>
        /\ Range(bfs.connectedLinks) = ChainClosure({bfsStart}, bfsDir)
        /\ bfsStart \in Range(bfs.connectedLinks)
        /\ (\A m \in DOMAIN links : ~Continues(bfsStart, m, bfsDir)) =>
               bfs.connectedLinks = <<bfsStart>>

(***************************************************************************)
(* C7.  The traversal loop terminates with an empty queue, and at every    *)
(* point its result lists no link twice and no more links than the graph   *)
(* has.                                                                    *)
(***************************************************************************)
NoLinkTwice ==
    /\ \A a, b \in DOMAIN bfs.connectedLinks :
           bfs.connectedLinks[a] = bfs.connectedLinks[b] => a = b
    /\ Len(bfs.connectedLinks) <= Len(links)

C7_TraversalTerminates ==
    /\ [](pc # "idle" => NoLinkTwice)
    /\ [](pc = "loop" => <>(pc = "returned" /\ bfs.queue = <<>>))

\* The loop meets a link a second time: two chains from the start link end in it.
C7_Witness ==
    /\ pc = "loop"
    /\ bfs.queue # <<>>
    /\ Head(bfs.queue) \in Range(bfs.connectedLinks)

(***************************************************************************)
(* C8.  On hovering a node the highlighted links (allConnectedLinks) are   *)
(* the whole weakly-connected component of the node.                       *)
(***************************************************************************)
HoveredDirect == LinksFrom(nodes[hover.index].id) \cup LinksInto(nodes[hover.index].id)

C8_HighlightIsComponent ==
    hover.kind = "node" => hover.links = WeakClosure(HoveredDirect)

(***************************************************************************)
(* C8, amended.  On hovering a node the highlighted links hold the node's  *)
(* direct links and the links that continue a direct link forward or       *)
(* backward, and every highlighted link is at the end of a forward chain   *)
(* or of a backward chain from a direct link (so it lies in the component, *)
(* which it need not fill).                                                *)
(***************************************************************************)
C8_HighlightIsUpAndDownstream ==
    hover.kind = "node" =>
        /\ HoveredDirect \subseteq hover.links
        /\ \A d \in HoveredDirect : \A m \in DOMAIN links :
               (Continues(d, m, "forward") \/ Continues(d, m, "backward")) => m \in hover.links
        /\ hover.links \subseteq
               ChainClosure(HoveredDirect, "forward") \cup ChainClosure(HoveredDirect, "backward")
        /\ hover.links \subseteq WeakClosure(HoveredDirect)

\* The highlight goes beyond the direct links and stops short of the component.
C8_Witness ==
    /\ hover.kind = "node"
    /\ HoveredDirect # hover.links
    /\ hover.links # WeakClosure(HoveredDirect)

(***************************************************************************)
(* getLinkPath: the end points and control points of a link's curve.      *)
(* Horizontal lengths are exact multiples of 1 / (3 * steps) pixel and are *)
(* stored as that multiple; vertical lengths are in the units of Px.       *)
(***************************************************************************)
nodeWidth == 30
fallbackWidth == 1000

\* svgRef.current.parentElement?.clientWidth || 1000
containerWidth(clientWidth) == IF clientWidth = 0 THEN fallbackWidth ELSE clientWidth

\* p horizontal pixels in the units of a render with this many steps.
PxX(p, nsteps) == p * 3 * nsteps

\* stepWidth = width / steps, stepSpacing = stepWidth - nodeWidth
stepWidth(width, nsteps) == 3 * width
stepSpacing(width, nsteps) == stepWidth(width, nsteps) - PxX(nodeWidth, nsteps)

\* node.x = step * stepWidth
NodeX(node, width, nsteps) == node.step * stepWidth(width, nsteps)

\* a || b on numbers: 0 counts as missing.
OrElse(a, b) == IF a = 0 THEN b ELSE a

\* getLinkPath(d): M sourceX,sourceY C cp1X,sourceY cp2X,targetY targetX,targetY; the
\* empty path when an end node is not found.
getLinkPath(ns, ls, k, width, nsteps) ==
    LET source == FindNode(ns, ls[k].source)
        target == FindNode(ns, ls[k].target)
    IN IF source = 0 \/ target = 0 THEN [found |-> FALSE]
       ELSE LET sourceY == OrElse(ls[k].sourceY, ns[source].y)
                targetY == OrElse(ls[k].targetY, ns[target].y)
                sourceX == NodeX(ns[source], width, nsteps) + PxX(nodeWidth, nsteps)
                targetX == NodeX(ns[target], width, nsteps)
            IN [found |-> TRUE,
                sourceX |-> sourceX, sourceY |-> sourceY,
                controlPoint1X |-> sourceX + (stepSpacing(width, nsteps) \div 3),
                controlPoint2X |-> targetX - (stepSpacing(width, nsteps) \div 3),
                targetX |-> targetX, targetY |-> targetY]

\* Widths of the parent element; 0 stands for a parent without a width.
ClientWidths == {0, 600}

(***************************************************************************)
(* C11.  Every link's curve starts at (right edge of the source node, the  *)
(* source anchor the layout computed) and ends at (left edge of the target *)
(* node, the target anchor the layout computed), links of value 0 and      *)
(* links anchored at the top of a layer included.                          *)
(***************************************************************************)
C11_PathUsesComputedAnchors ==
    Fresh =>
        \A k \in DOMAIN links : \A cw \in ClientWidths :
            LET w == containerWidth(cw)
                path == getLinkPath(nodes, links, k, w, steps)
            IN /\ path.found
               /\ path.sourceX = NodeX(NodeOf(links[k].source), w, steps) + PxX(nodeWidth, steps)
               /\ path.targetX = NodeX(NodeOf(links[k].target), w, steps)
               /\ path.sourceY = links[k].sourceY
               /\ path.targetY = links[k].targetY

(***************************************************************************)
(* C12.  A node's percentage is the percentage field of the first journey  *)
(* of the input, in input order, that has the node's label at the node's   *)
(* layer; such a journey exists for every node, so the fallback 0 is never *)
(* taken.                                                                  *)
(***************************************************************************)
C12_PercentageOfFirstMatch ==
    Fresh =>
        \A k \in DOMAIN nodes :
            /\ MatchingJourney(journeys, nodes[k]) # 0
            /\ \E j \in DOMAIN journeys :
                   /\ HasLabelAt(journeys[j], nodes[k].step, nodes[k].name)
                   /\ \A m \in 1..(j - 1) : ~HasLabelAt(journeys[m], nodes[k].step, nodes[k].name)
                   /\ nodes[k].percentage = journeys[j].percentage

\* Two journeys with different percentages pass through one node; the first one's is shown.
C12_Witness ==
    /\ Fresh
    /\ \E k \in DOMAIN nodes : \E j1, j2 \in DOMAIN journeys :
           /\ j1 < j2
           /\ HasLabelAt(journeys[j1], nodes[k].step, nodes[k].name)
           /\ HasLabelAt(journeys[j2], nodes[k].step, nodes[k].name)
           /\ journeys[j1].percentage # journeys[j2].percentage
           /\ nodes[k].percentage = journeys[j1].percentage

(***************************************************************************)
(* C13.  The flow scale maps a value v to v * cap / D, cap = 100, where D  *)
(* is the largest link value, or 1 when there is no link or the largest    *)
(* value is 0, so D is never 0; every link's thickness lies in [0, cap],   *)
(* and a link whose value is a positive D has thickness cap.               *)
(***************************************************************************)
C13_FlowScale ==
    Fresh =>
        /\ maxLinkValue > 0
        /\ \A k \in DOMAIN links : links[k].value <= maxLinkValue
        /\ IF \E k \in DOMAIN links : links[k].value > 0
           THEN \E k \in DOMAIN links : links[k].value = maxLinkValue
           ELSE maxLinkValue = 1
        /\ \A k \in DOMAIN links :
               \* thickness * D = v * cap, both sides in half pixels
               /\ Thickness(k) = 2 * links[k].value * MAX_LINK_HEIGHT
               /\ 0 <= Thickness(k)
               /\ Thickness(k) <= Px(MAX_LINK_HEIGHT, maxLinkValue)
               /\ (links[k].value = maxLinkValue /\ links[k].value > 0) =>
                      Thickness(k) = Px(MAX_LINK_HEIGHT, maxLinkValue)

\* A link at the largest value, above 1, beside a thinner link that is not of value 0.
C13_Witness ==
    /\ Fresh
    /\ maxLinkValue > 1
    /\ \E k, m \in DOMAIN links :
           /\ links[k].value = maxLinkValue
           /\ 0 < links[m].value /\ links[m].value < maxLinkValue
           /\ Thickness(m) < Thickness(k)

(***************************************************************************)
(* C14.  The canvas height is the larger of the minimum height and the     *)
(* padding (verticalPadding above and below) plus the largest layer        *)
(* height, a layer's height being the sum of its node heights plus one gap *)
(* between consecutive nodes; an empty graph gets the minimum height.  In  *)
(* a layer the first node's top edge is at 0 and each next node's top edge *)
(* is one gap below the bottom edge of the node before it, in node order,  *)
(* so nodes of a layer do not overlap and every bottom edge is within the  *)
(* canvas.                                                                 *)
(***************************************************************************)
TopEdge(k) == nodes[k].y - (nodes[k].height \div 2)
BottomEdge(k) == TopEdge(k) + nodes[k].height
Layer(s) == {k \in DOMAIN nodes : nodes[k].step = s}
LayerHeight(s) ==
    SumOver(Layer(s), [k \in DOMAIN nodes |-> nodes[k].height])
        + (Cardinality(Layer(s)) - 1) * Px(nodeGap, maxLinkValue)

\* Node m is the next node of its layer after node k.
NextInLayer(k, m) ==
    /\ k < m
    /\ nodes[k].step = nodes[m].step
    /\ \A x \in (k + 1)..(m - 1) : nodes[x].step # nodes[k].step

C14_CanvasAndStacking ==
    Fresh =>
        /\ IF nodes = <<>> THEN svgHeight = Px(minHeight, maxLinkValue)
           ELSE \E s \in {nodes[k].step : k \in DOMAIN nodes} :
                   /\ \A t \in {nodes[k].step : k \in DOMAIN nodes} : LayerHeight(t) <= LayerHeight(s)
                   /\ svgHeight = Max2(Px(minHeight, maxLinkValue),
                                       LayerHeight(s) + Px(2 * verticalPadding, maxLinkValue))
        /\ \A k \in DOMAIN nodes :
               /\ 2 * TopEdge(k) = 2 * nodes[k].y - nodes[k].height
               /\ (\A x \in 1..(k - 1) : nodes[x].step # nodes[k].step) => TopEdge(k) = 0
               /\ BottomEdge(k) <= svgHeight
        /\ \A k, m \in DOMAIN nodes :
               /\ NextInLayer(k, m) => TopEdge(m) = BottomEdge(k) + Px(nodeGap, maxLinkValue)
               /\ (k < m /\ nodes[k].step = nodes[m].step) => BottomEdge(k) < TopEdge(m)

\* A layer of two nodes that is taller than the minimum height allows.
C14_Witness ==
    /\ Fresh
    /\ svgHeight > Px(minHeight, maxLinkValue)
    /\ \E k, m \in DOMAIN nodes : NextInLayer(k, m) /\ nodes[k].height # nodes[m].height

(***************************************************************************)
(* Node colours: getFirstSegment, segmentCounts, segmentColors and         *)
(* getNodeColor.  A label is a string; its characters are read through     *)
(* CharsOf, the inverse of joining characters into a string.               *)
(***************************************************************************)
LabelAlphabet == {"/", "a", "b", "c", "d", "e", "f", "g", "h", "i"}
ColorMaxLabelLen == 2

RECURSIVE Join(_)
\* The string of a sequence of characters.
Join(cs) == IF cs = <<>> THEN "" ELSE Head(cs) \o Join(Tail(cs))

CharSeqs == UNION {[1..n -> LabelAlphabet] : n \in 0..ColorMaxLabelLen}
CharsOf == [name \in {Join(cs) : cs \in CharSeqs} |-> CHOOSE cs \in CharSeqs : Join(cs) = name]

RECURSIVE Split(_, _)
\* path.split("/"): the pieces between the separators, empty pieces included; cur is
\* the piece being read.
Split(cs, cur) ==
    IF cs = <<>> THEN <<cur>>
    ELSE IF Head(cs) = "/" THEN <<cur>> \o Split(Tail(cs), <<>>)
         ELSE Split(Tail(cs), Append(cur, Head(cs)))

\* segments = path.split("/").filter(Boolean);
\* segments.length > 0 ? `/${segments[0]}` : path
getFirstSegment(path) ==
    LET segments == SelectSeq(Split(CharsOf[path], <<>>), LAMBDA piece : piece # <<>>)
    IN IF Len(segments) > 0 THEN "/" \o Join(segments[1]) ELSE path

\* The keys of segmentCounts in insertion order: each segment at its first node.
SegmentOrder(ns) ==
    LET firsts == SelectSeq([k \in DOMAIN ns |-> k],
                            LAMBDA k : \A x \in 1..(k - 1) :
                                getFirstSegment(ns[x].name) # getFirstSegment(ns[k].name))
    IN [j \in DOMAIN firsts |-> getFirstSegment(ns[firsts[j]].name)]

\* segmentCounts.get(segment)
SegmentCount(ns, segment) ==
    Cardinality({k \in DOMAIN ns : getFirstSegment(ns[k].name) = segment})

colorPalette ==
    <<"hsl(160, 45%, 40%)", "hsl(220, 45%, 50%)", "hsl(270, 40%, 50%)", "hsl(25, 50%, 50%)",
      "hsl(340, 40%, 50%)", "hsl(190, 45%, 45%)", "hsl(45, 45%, 50%)", "hsl(0, 45%, 50%)">>
defaultColor == "hsl(0, 0%, 50%)"

\* A faulty variant of NextColorIndex: every segment takes a palette slot.
NextColorIndex_Always(count, colorIndex) == colorIndex + 1

\* if (count > 1) { ...; colorIndex++ }
NextColorIndex(count, colorIndex) == IF count > 1 THEN colorIndex + 1 ELSE colorIndex

RECURSIVE AssignColors(_, _, _, _, _)
\* segmentCounts.forEach from entry j on: segmentColors as a set of <<segment, colour>>.
AssignColors(ns, order, j, colorIndex, assigned) ==
    IF j > Len(order) THEN assigned
    ELSE LET count == SegmentCount(ns, order[j])
             colour == colorPalette[(colorIndex % Len(colorPalette)) + 1]
         IN AssignColors(ns, order, j + 1, NextColorIndex(count, colorIndex),
                         IF count > 1 THEN assigned \cup {<<order[j], colour>>} ELSE assigned)

segmentColors(ns) == AssignColors(ns, SegmentOrder(ns), 1, 0, {})

\* segmentColors.get(segment) || defaultColor
ColorIn(assigned, segment) ==
    LET hits == {e \in assigned : e[1] = segment}
    IN IF hits = {} THEN defaultColor ELSE (CHOOSE e \in hits : TRUE)[2]

\* getNodeColor(node)
getNodeColor(ns, node) == ColorIn(segmentColors(ns), getFirstSegment(node.name))

\* The fill of every node rect of the drawing.
NodeColors(ns) ==
    LET assigned == segmentColors(ns)
    IN [k \in DOMAIN ns |-> ColorIn(assigned, getFirstSegment(ns[k].name))]

(***************************************************************************)
(* ColorSpec: one render of a journey whose labels are all the strings of  *)
(* a small alphabet, and of a journey with nine recurring segments.        *)
(***************************************************************************)
ColorMaxPathLen == 4
ColorMaxJourneys == 1

ColorAlphabet == {"/", "a", "b"}
ColorLabels == {Join(cs) : cs \in UNION {[1..n -> ColorAlphabet] : n \in 0..ColorMaxLabelLen}}
ColorPool == JourneysOf(ColorLabels, ColorMaxPathLen, {1}, {50})

\* Nine segments at two nodes each, then a segment of its own.
ScenarioPalette ==
    <<[path |-> <<"/a", "a", "/b", "b", "/c", "c", "/d", "d", "/e", "e", "/f", "f",
                  "/g", "g", "/h", "h", "/i", "i", "/">>,
       count |-> 1, percentage |-> 100]>>

ColorInit ==
    InitWith(ColorPool, ColorMaxJourneys, {ScenarioPalette}, {ColorMaxJourneys}, {2},
             {"example.com"}, {"light", "dark"})

ColorNext ==
    \/ Mount
    \/ \E t \in {"light", "dark"} : SetTheme(t)

ColorSpec == ColorInit /\ [][ColorNext]_vars

(***************************************************************************)
(* C15.  A node whose segment key occurs at no other node has the default  *)
(* colour; a node whose key occurs at several nodes has palette[r mod 8],  *)
(* r being the 0-based rank of its key among the recurring keys in order   *)
(* of first appearance in the node list; nodes with one key have one       *)
(* colour.  The key is "/" plus the first non-empty component of the label *)
(* split on "/", or the label itself when it has none.                     *)
(***************************************************************************)
SegmentKey(k) == getFirstSegment(nodes[k].name)
Recurring(k) == \E m \in DOMAIN nodes : m # k /\ SegmentKey(m) = SegmentKey(k)
FirstWithKey(k) == CHOOSE m \in DOMAIN nodes :
                       /\ SegmentKey(m) = SegmentKey(k)
                       /\ \A x \in 1..(m - 1) : SegmentKey(x) # SegmentKey(k)
KeyRank(k) ==
    Cardinality({FirstWithKey(m) : m \in {x \in DOMAIN nodes :
                                             Recurring(x) /\ FirstWithKey(x) < FirstWithKey(k)}})

C15_SegmentColours ==
    Fresh =>
        LET fill == NodeColors(nodes)
        IN /\ \A k \in DOMAIN nodes :
                  /\ fill[k] = getNodeColor(nodes, nodes[k])
                  /\ fill[k] = IF Recurring(k) THEN colorPalette[(KeyRank(k) % 8) + 1]
                               ELSE defaultColor
           /\ \A k, m \in DOMAIN nodes : SegmentKey(k) = SegmentKey(m) => fill[k] = fill[m]
           /\ \A k \in DOMAIN nodes :
                  /\ nodes[k].name \in ColorLabels =>
                         (nodes[k].name \in {"/a", "a", "a/"} <=> SegmentKey(k) = "/a")
                  /\ nodes[k].name \in {"", "/", "//"} => SegmentKey(k) = nodes[k].name
                  /\ nodes[k].name = "/b" => SegmentKey(k) = "/b"
                  /\ nodes[k].name = "ab" => SegmentKey(k) = "/ab"

\* The ninth recurring key wraps to the first palette colour, beside a key of its own.
C15_Witness ==
    /\ Fresh
    /\ \E k, m \in DOMAIN nodes :
           /\ Recurring(k) /\ KeyRank(k) = Len(colorPalette)
           /\ getNodeColor(nodes, nodes[k]) = colorPalette[1]
           /\ ~Recurring(m)
           /\ getNodeColor(nodes, nodes[m]) = defaultColor

(***************************************************************************)
(* C16.  The dimming shown is that of the latest hover event alone.  After *)
(* a mouseenter a link is emphasised exactly when it is one of the event's *)
(* connected links and a node exactly when it is an end of one of them (or *)
(* the hovered node), and everything else is dimmed; after a mouseleave,   *)
(* and before any hover, every link and node has its default opacity.      *)
(***************************************************************************)
\* The connected links of the latest mouseenter, recomputed from the drawing.
LatestConnected ==
    IF hover.kind = "node"
    THEN Range(NodeConnectedLinks(nodes, links, nodes[hover.index].id))
    ELSE Range(LinkConnectedLinks(nodes, links, hover.index))

LatestConnectedNodes ==
    {links[k].source : k \in LatestConnected} \cup {links[k].target : k \in LatestConnected}
        \cup (IF hover.kind = "node" THEN {nodes[hover.index].id} ELSE {})

C16_DimmingOfLatestEvent ==
    Drawn =>
        IF hover.kind = "none"
        THEN /\ \A k \in DOMAIN links : linkOpacity[k] = OpLinkDefault
             /\ \A k \in DOMAIN nodes : nodeOpacity[k] = OpNodeOn /\ textOpacity[k] = OpNodeOn
        ELSE /\ \A k \in DOMAIN links :
                    linkOpacity[k] = IF k \in LatestConnected THEN OpLinkOn ELSE OpLinkOff
             /\ \A k \in DOMAIN nodes :
                    /\ nodeOpacity[k] = IF nodes[k].id \in LatestConnectedNodes
                                        THEN OpNodeOn ELSE OpRectOff
                    /\ textOpacity[k] = IF nodes[k].id \in LatestConnectedNodes
                                        THEN OpNodeOn ELSE OpTextOff

(***************************************************************************)
(* C17.  Over any sequence of renders and the unmount, the document holds  *)
(* at most one tooltip element of the diagram: the one of the latest       *)
(* effect run that drew, removed by its cleanup before the next run or at  *)
(* unmount.  None exists before the mount, after an effect run that        *)
(* returned early, or after the unmount.                                   *)
(***************************************************************************)
C17_AtMostOneTooltip ==
    /\ tooltips \in {0, 1}
    /\ tooltips = 1 <=> hasCleanup
    /\ mounted # "yes" => tooltips = 0
    /\ (mounted = "yes" /\ EarlyReturn(hasJourneys, domain)) => tooltips = 0
    /\ Fresh => tooltips = 1

\* An effect run returned early after an earlier run had drawn: the drawing is still
\* there, its tooltip is not.
C17_Witness ==
    /\ mounted = "yes"
    /\ EarlyReturn(hasJourneys, domain)
    /\ nodes # <<>>
    /\ tooltips = 0

(***************************************************************************)
(* C18.  With counts that are not negative, the links stacked on a side of *)
(* a node fit in its bar: the thicknesses of its outgoing links sum to at  *)
(* most its height, and so do those of its incoming links, so every anchor *)
(* lies between the top and the bottom edge of its node; a node's height   *)
(* is at least MIN_NODE_HEIGHT, also when all its links have thickness 0.  *)
(***************************************************************************)
ThicknessSum(S) == SumOver(S, [k \in DOMAIN links |-> Thickness(k)])

C18_LinksFitTheirNode ==
    Fresh =>
        /\ \A n \in DOMAIN nodes :
               /\ nodes[n].height >= Px(MIN_NODE_HEIGHT, maxLinkValue)
               /\ ThicknessSum(LinksFrom(nodes[n].id)) <= nodes[n].height
               /\ ThicknessSum(LinksInto(nodes[n].id)) <= nodes[n].height
        /\ \A k \in DOMAIN links :
               LET s == FindNode(nodes, links[k].source)
                   t == FindNode(nodes, links[k].target)
               IN /\ TopEdge(s) <= links[k].sourceY /\ links[k].sourceY <= BottomEdge(s)
                  /\ TopEdge(t) <= links[k].targetY /\ links[k].targetY <= BottomEdge(t)

\* Two links fill the bar of a node exactly, and a node whose only link has thickness 0
\* keeps the minimum height.
C18_Witness ==
    /\ Fresh
    /\ \E n \in DOMAIN nodes :
           /\ Cardinality(LinksFrom(nodes[n].id)) = 2
           /\ nodes[n].height > Px(MIN_NODE_HEIGHT, maxLinkValue)
           /\ ThicknessSum(LinksFrom(nodes[n].id)) = nodes[n].height
    /\ \E n \in DOMAIN nodes :
           /\ LinksInto(nodes[n].id) # {}
           /\ ThicknessSum(LinksInto(nodes[n].id) \cup LinksFrom(nodes[n].id)) = 0
           /\ nodes[n].height = Px(MIN_NODE_HEIGHT, maxLinkValue)

(***************************************************************************)
(* Tracker.trackError: the dedupe of identical errors and the pruning of   *)
(* the dedupe cache.  An error is the tuple the key is made of; lineno and *)
(* colno are <<>> when undefined and <<n>> for the number n.  Whether the  *)
(* call gets past the noise and origin filters is an input of the call.    *)
(***************************************************************************)
\* String(x) as Array.prototype.join writes it, after `?? ""`.
KeyPart(x) == IF x = <<>> THEN "" ELSE ToString(x[1])

\* dedupeKeyParts.join("|")
DedupeKey(e) ==
    (IF e.name = "" THEN "Error" ELSE e.name) \o "|" \o e.message \o "|" \o e.filename
        \o "|" \o KeyPart(e.lineno) \o "|" \o KeyPart(e.colno)

\* this.errorDedupeCache.get(dedupeKey); 0 stands for undefined, falsy as well.
CacheGet(cache, key) == IF key \in DOMAIN cache THEN cache[key] ELSE 0

\* A faulty variant of IsDuplicate: the comparison is turned around.
IsDuplicate_Inverted(lastSeen, t) == lastSeen # 0 /\ t - lastSeen > dedupeWindowMs

\* lastSeen && now - lastSeen < dedupeWindowMs
IsDuplicate(lastSeen, t) == lastSeen # 0 /\ t - lastSeen < dedupeWindowMs

\* for (const [key, ts] of cache.entries()) if (now - ts > pruneAfterMs) cache.delete(key)
Prune(cache, t) ==
    LET kept == {key \in DOMAIN cache : ~(t - cache[key] > pruneAfterMs)}
    IN [key \in kept |-> cache[key]]

\* The time track() was last called for error e, 0 when never.
ForwardedAt(e) == IF e \in DOMAIN lastForwarded THEN lastForwarded[e] ELSE 0

\* The latest time track() was called for an error with the dedupe key of e, 0 when never.
ForwardedKeyAt(e) ==
    LET times == {lastForwarded[u] : u \in {x \in DOMAIN lastForwarded : DedupeKey(x) = DedupeKey(e)}}
    IN IF times = {} THEN 0 ELSE CHOOSE t \in times : \A u \in times : u <= t

Called(e, outcome) ==
    [error |-> e, outcome |-> outcome, prevSame |-> ForwardedAt(e), prevKey |-> ForwardedKeyAt(e)]

\* trackError(error, additionalInfo) at the current time.
TrackError(e, passes) ==
    /\ IF ~passes
       THEN \* return of a filter, lines 170-201
            /\ lastCall' = Called(e, "filtered")
            /\ UNCHANGED <<errorDedupeCache, errorDedupeLastCleanup, lastForwarded>>
       ELSE IF IsDuplicate(CacheGet(errorDedupeCache, DedupeKey(e)), now)
       THEN \* return, line 219
            /\ lastCall' = Called(e, "dropped")
            /\ UNCHANGED <<errorDedupeCache, errorDedupeLastCleanup, lastForwarded>>
       ELSE \E set \in {(DedupeKey(e) :> now) @@ errorDedupeCache} :
                /\ IF now - errorDedupeLastCleanup > dedupeWindowMs
                   THEN /\ errorDedupeCache' = Prune(set, now)
                        /\ errorDedupeLastCleanup' = now
                   ELSE /\ errorDedupeCache' = set
                        /\ UNCHANGED errorDedupeLastCleanup
                \* this.track("error", ...), line 267
                /\ lastForwarded' = (e :> now) @@ lastForwarded
                /\ lastCall' = Called(e, "forwarded")
    /\ UNCHANGED <<now, sankeyVars>>

\* Time passes between two calls.
AdvanceClock(tick) ==
    /\ tick * TickMs > now
    /\ now' = tick * TickMs
    /\ lastCall' = NoCall
    /\ UNCHANGED <<errorDedupeCache, errorDedupeLastCleanup, lastForwarded, sankeyVars>>

(***************************************************************************)
(* TrackerSpec: calls of trackError with a few errors, two pairs of which  *)
(* have one dedupe key, as time passes.                                    *)
(***************************************************************************)
Errors ==
    {[name |-> "A", message |-> "b|c", filename |-> "", lineno |-> <<>>, colno |-> <<>>],
     [name |-> "A|b", message |-> "c", filename |-> "", lineno |-> <<>>, colno |-> <<>>],
     [name |-> "", message |-> "m", filename |-> "f.js", lineno |-> <<1>>, colno |-> <<2>>]}

ClockTicks == (1..NearTicks) \cup {FarTicks + k : k \in 0..(NearTicks - 1)}

TrackerInit == InitWith({}, 0, {}, {0}, {2}, {"example.com"}, {"light"})

TrackerNext ==
    \/ \E e \in Errors, passes \in BOOLEAN : TrackError(e, passes)
    \/ \E tick \in ClockTicks : AdvanceClock(tick)

TrackerSpec == TrackerInit /\ [][TrackerNext]_vars

(***************************************************************************)
(* C19.  Of the calls that pass the filters, at times that do not          *)
(* decrease, two calls for one error (name, message, filename, lineno,     *)
(* colno) both reach track() only when at least 60 s lie between them: a   *)
(* call less than 60 s after the last one that reached track() is dropped, *)
(* and a dropped call changes nothing, so it does not restart the window.  *)
(* The pruning removes only entries older than 10 minutes, so an error     *)
(* that reached track() within the last 10 minutes still has its entry.    *)
(***************************************************************************)
C19_DedupeWindow ==
    /\ lastCall.outcome = "forwarded" =>
           lastCall.prevSame = 0 \/ now - lastCall.prevSame >= dedupeWindowMs
    /\ (lastCall.outcome \in {"forwarded", "dropped"}
            /\ lastCall.prevSame # 0 /\ now - lastCall.prevSame < dedupeWindowMs) =>
           lastCall.outcome = "dropped"
    /\ lastCall.outcome = "dropped" =>
           /\ lastCall.prevKey # 0 /\ now - lastCall.prevKey < dedupeWindowMs
           /\ ForwardedAt(lastCall.error) = lastCall.prevSame
           /\ CacheGet(errorDedupeCache, DedupeKey(lastCall.error)) = lastCall.prevKey
    /\ \A e \in DOMAIN lastForwarded :
           now - lastForwarded[e] <= pruneAfterMs =>
               CacheGet(errorDedupeCache, DedupeKey(e)) >= lastForwarded[e]
    /\ \A key \in DOMAIN errorDedupeCache :
           \E e \in DOMAIN lastForwarded :
               DedupeKey(e) = key /\ lastForwarded[e] = errorDedupeCache[key]

\* A call is dropped inside its window after the pruning has removed the entry of
\* another error.
C19_Witness ==
    /\ lastCall.outcome = "dropped"
    /\ lastCall.prevSame # 0
    /\ \E e \in DOMAIN lastForwarded : DedupeKey(e) \notin DOMAIN errorDedupeCache

====
